---- MODULE Spec2Model ----
(***************************************************************************)
(* A model of startssl.py: the StartSSL API session (authenticate,         *)
(* get_validated_resources, is_validated_domain,                           *)
(* submit_certificate_request), the certificate bundle extraction          *)
(* (get_certificate) and the form body sent by the request wrapper.        *)
(*                                                                         *)
(* Python strings are strings; a list is a sequence.  The Python values     *)
(* None and False are the strings None and False, which no input of the    *)
(* model equals; an attribute that holds None or a list holds NoneList for *)
(* None.  The locals of a call are a record with a field for each local    *)
(* assigned so far.                                                        *)
(***************************************************************************)
EXTENDS Integers, Sequences, FiniteSets, TLC

VARIABLES
    authenticated,      \* API.authenticated
    validated_emails,   \* API.validated_emails (None until the first fetch)
    validated_domains,  \* API.validated_domains (None until the first fetch)
    server_domains,     \* what AjaxRequestGetAllDomainValis answers
    server_emails,      \* what AjaxRequestGetAllEmailValis answers
    cookies,            \* API.cookies
    ret,                \* the last API call: its arguments, locals and outcome
    gc,                 \* the frame of a call of get_certificate: pc, locals, events
    form,               \* the submission of a subject list and a CSR text: pc, locals
    cli                 \* the run of the command line's csr command: pc, arguments, output

sessionVars == <<authenticated, validated_emails, validated_domains,
                 server_domains, server_emails, cookies>>

vars == <<authenticated, validated_emails, validated_domains,
          server_domains, server_emails, cookies, ret, gc, form, cli>>

-----------------------------------------------------------------------------
(* Bounds of the model *)

MaxSans == 2
MaxDomains == 2
MaxEntries == 3

-----------------------------------------------------------------------------
(* Python values *)

None == "<None>"
False == "<False>"
NoneList == <<None>>

IsStr(v) == v \notin {None, False}

\* the locals loc with local k assigned v
Assign(loc, k, v) == [f \in DOMAIN loc \cup {k} |-> IF f = k THEN v ELSE loc[f]]

Assigned(loc, k) == k \in DOMAIN loc

\* Python truth value of a str, None or False
Truthy(v) == v # None /\ v # False /\ v # ""

\* str.endswith
EndsWith(s, suffix) ==
    /\ Len(suffix) <= Len(s)
    /\ \/ suffix = ""
       \/ SubSeq(s, Len(s) - Len(suffix) + 1, Len(s)) = suffix

Contains(seq, v) == \E i \in 1..Len(seq) : seq[i] = v

RECURSIVE Join(_)
\* "".join(list)
Join(list) == IF list = <<>> THEN "" ELSE Head(list) \o Join(Tail(list))

RECURSIVE SeqsUpTo(_, _)
SeqsUpTo(S, n) ==
    IF n = 0 THEN {<<>>}
    ELSE LET shorter == SeqsUpTo(S, n - 1)
         IN  shorter \cup {Append(s, x) : s \in shorter, x \in S}

-----------------------------------------------------------------------------
(* Inputs: domain names, CSRs, profiles *)

\* The names a CSR asks for.  "ex.com" is a literal suffix of "evilex.com" at
\* no label boundary
SubjectNames == {"ex.com", "evilex.com", "other.org"}

\* The domains the server may list as validated: the strings its JSON holds
DomainNames == {"", "ex.com", "evilex.com"}

Names == SubjectNames \cup DomainNames

SanEntries == {<<"dNSName", n>> : n \in SubjectNames} \cup {<<"rfc822Name", "ex.com">>}

CsrPem == "-----BEGIN CERTIFICATE REQUEST-----\nMIIB+/8=\n-----END CERTIFICATE REQUEST-----"

\* A parsed CSR: get_common_name() is None when the subject has no CN
NoCsr == [cn |-> None, sans |-> <<>>, pem |-> ""]

Csrs == [cn : SubjectNames \cup {None}, sans : SeqsUpTo(SanEntries, MaxSans), pem : {CsrPem}]

CERTIFICATE_PROFILES == {"smime", "server", "xmpp", "code"}

Profiles == CERTIFICATE_PROFILES \cup {"bogus"}

DomainLists == SeqsUpTo(DomainNames, MaxDomains)

EmailLists == {<<"me@ex.com">>}

-----------------------------------------------------------------------------
(* The request wrapper *)

STARTSSL_AUTHURI == "https://auth.startssl.com"
STARTSSL_GETDOMAINSURI == "https://startssl.com/ControlPanel/AjaxRequestGetAllDomainValis"
STARTSSL_GETEMAILSURI == "https://startssl.com/ControlPanel/AjaxRequestGetAllEmailValis"
STARTSSL_SUBMITCSR == "https://startssl.com/Certificates/ssl"

\* urllib quote_plus of one character: the always-safe characters stay, a
\* space becomes "+", any other character its %XX escape
\* no character is escaped
QuoteCharPlain(c) == c

QuoteChar(c) ==
    CASE c = " "  -> "+"
      [] c = "+"  -> "%2B"
      [] c = "&"  -> "%26"
      [] c = "="  -> "%3D"
      [] c = "%"  -> "%25"
      [] c = "/"  -> "%2F"
      [] c = "\n" -> "%0A"
      [] OTHER    -> c

RECURSIVE QuotePlus(_)
QuotePlus(s) == IF s = "" THEN "" ELSE QuoteChar(Head(s)) \o QuotePlus(Tail(s))

RECURSIVE Urlencode(_)
\* urlencode of a list of (key, value) pairs
Urlencode(pairs) ==
    IF pairs = <<>> THEN ""
    ELSE LET kv == QuotePlus(Head(pairs)[1]) \o "=" \o QuotePlus(Head(pairs)[2])
         IN  IF Len(pairs) = 1 THEN kv ELSE kv \o "&" \o Urlencode(Tail(pairs))

\* The request __request hands to httplib2: a list body is urlencoded, a POST
\* gets the form content type, the session cookie is added when there is one
NoKwargs == <<>>

Request(uri, method, kwargs, cookie) ==
    [uri |-> uri, method |-> method,
     body |-> IF "body" \in DOMAIN kwargs THEN Urlencode(kwargs.body) ELSE None,
     content_type |-> IF method = "POST" THEN "application/x-www-form-urlencoded" ELSE "",
     cookie |-> cookie]

-----------------------------------------------------------------------------
(* The session *)

NoExc == [type |-> "none", msg |-> ""]
Raise(type, msg) == [type |-> type, msg |-> msg]

AppBody == [body |-> << <<"app", "12">> >>]

\* the fetch of get_validated_resources: both lists are emptied, then filled
\* from the answer to each request; an answer that is not a 200 ends the call
GetValidatedResourcesFetch(domOk, emailOk, cookie) ==
    LET domReq == Request(STARTSSL_GETDOMAINSURI, "GET", AppBody, cookie)
        emailReq == Request(STARTSSL_GETEMAILSURI, "GET", AppBody, cookie)
    IN  IF ~domOk
        THEN [exc |-> Raise("AssertionError", "resp.status"), ve |-> <<>>, vd |-> <<>>,
              requests |-> <<domReq>>]
        ELSE IF ~emailOk
        THEN [exc |-> Raise("AssertionError", "resp.status"), ve |-> <<>>,
              vd |-> server_domains,
              requests |-> <<domReq, emailReq>>]
        ELSE [exc |-> NoExc, ve |-> server_emails, vd |-> server_domains,
              requests |-> <<domReq, emailReq>>]

\* get_validated_resources without the early return of the cached lists
get_validated_resources_uncached(auth, ve, vd, force_update, domOk, emailOk, cookie) ==
    IF ~auth
    THEN [exc |-> Raise("AssertionError", "not authenticated"), ve |-> ve, vd |-> vd,
          requests |-> <<>>]
    ELSE GetValidatedResourcesFetch(domOk, emailOk, cookie)

\* get_validated_resources in session state (auth, ve, vd): the exception it
\* ends with, the lists it leaves in the session and the requests it sent
get_validated_resources(auth, ve, vd, force_update, domOk, emailOk, cookie) ==
    IF ~auth
    THEN [exc |-> Raise("AssertionError", "not authenticated"), ve |-> ve, vd |-> vd,
          requests |-> <<>>]
    ELSE IF ve # NoneList /\ vd # NoneList /\ ~force_update
    THEN [exc |-> NoExc, ve |-> ve, vd |-> vd, requests |-> <<>>]
    ELSE GetValidatedResourcesFetch(domOk, emailOk, cookie)

\* whether a call of get_validated_resources sends requests
Fetches(force_update) ==
    authenticated /\ (validated_emails = NoneList \/ validated_domains = NoneList
                          \/ force_update)

FetchOutcomes(force_update) == IF Fetches(force_update) THEN BOOLEAN ELSE {TRUE}

RECURSIVE FirstSuffixFrom(_, _, _)
\* the loop of is_validated_domain from index i on
FirstSuffixFrom(domain, vds, i) ==
    IF i > Len(vds) THEN False
    ELSE IF EndsWith(domain, vds[i]) THEN vds[i]
    ELSE FirstSuffixFrom(domain, vds, i + 1)

\* is_validated_domain over the cached list vds: None has no endswith
is_validated_domain(domain, vds) ==
    IF ~IsStr(domain) /\ Len(vds) > 0
    THEN [exc |-> Raise("AttributeError", "endswith")]
    ELSE [exc |-> NoExc, val |-> FirstSuffixFrom(domain, vds, 1)]


-----------------------------------------------------------------------------
(* submit_certificate_request *)

\* CSR.get_subject_alt_names(types): the (type, value) pairs in encoding
\* order, without the types not asked for
get_subject_alt_names(csr, types) ==
    SelectSeq(csr.sans, LAMBDA e : ~(types # {} /\ e[1] \notin types))

RECURSIVE AppendNewAlways(_, _)
\* AppendNew without the test "v not in subjects"
AppendNewAlways(subjects, sans) ==
    IF sans = <<>> THEN subjects
    ELSE AppendNewAlways(Append(subjects, Head(sans)[2]), Tail(sans))

RECURSIVE AppendNew(_, _)
\* the loop over the dNSName SANs: a value not yet in subjects is appended
AppendNew(subjects, sans) ==
    IF sans = <<>> THEN subjects
    ELSE LET v == Head(sans)[2]
         IN  AppendNew(IF Contains(subjects, v) THEN subjects ELSE Append(subjects, v),
                       Tail(sans))

\* subjects = [csr_cn] and then the dNSName SANs not yet in it
BuildSubjects(csr) == AppendNew(<<csr.cn>>, get_subject_alt_names(csr, {"dNSName"}))

\* AddCovered without the test "validated_domain not in subjects_direct"
AddCoveredNoDedup(acc, subject, validated_domain) ==
    [acc EXCEPT
        !.subjects_direct = Append(@, validated_domain),
        !.subjects_subdomain =
            IF subject # validated_domain THEN Append(@, subject) ELSE @,
        !.validated_domain_first =
            IF ~Truthy(@) THEN validated_domain ELSE @]

\* what the coverage loop does with one covered subject
AddCovered(acc, subject, validated_domain) ==
    [acc EXCEPT
        !.subjects_direct =
            IF Contains(@, validated_domain) THEN @ ELSE Append(@, validated_domain),
        !.subjects_subdomain =
            IF subject # validated_domain THEN Append(@, subject) ELSE @,
        !.validated_domain_first =
            IF ~Truthy(@) THEN validated_domain ELSE @]

RECURSIVE CoverageLoop(_, _, _, _)
\* the loop over subjects from index i on; acc holds its locals
CoverageLoop(subjects, vds, i, acc) ==
    IF i > Len(subjects) THEN acc
    ELSE LET r == is_validated_domain(subjects[i], vds)
         IN  IF r.exc # NoExc
             THEN Assign([acc EXCEPT !.exc = r.exc], "exc_subject", subjects[i])
             ELSE IF Truthy(r.val)
             THEN CoverageLoop(subjects, vds, i + 1, AddCovered(acc, subjects[i], r.val))
             ELSE Assign([acc EXCEPT !.exc = Raise("ValueError",
                                                   "Missing domain validations")],
                         "exc_subject", subjects[i])

\* the body of the submission POST
SubmitBody(subjects, pem) ==
    << <<"domains", Join(subjects)>>, <<"rbcsr", "scsr">>, <<"areaCSR", pem>>,
       <<"hidchekcer", "1">>, <<"__EVENTTARGET", "btnSubmit">> >>

\* the locals at the start of a call: exc is the exception it ends with,
\* requests the requests it has sent.  csr is assigned when the call reads it
SubmitLocals(profile) ==
    [op |-> "submit_certificate_request", profile |-> profile,
     exc |-> NoExc, requests |-> <<>>]

\* the submission once every subject is covered: the POST must redirect and
\* the page it redirects to must answer 200
SubmitCsr(loc, cookie, postOk, getOk) ==
    LET body == SubmitBody(loc.subjects, loc.csr.pem)
        post == Request(STARTSSL_SUBMITCSR, "POST", [body |-> body], cookie)
        second == Request("location", "GET", NoKwargs, cookie)
        sent == [Assign(loc, "body", body) EXCEPT !.requests = Append(@, post)]
    IN  IF ~postOk
        THEN [sent EXCEPT !.exc = Raise("AssertionError", "CSR req is not redirecting")]
        ELSE IF ~getOk
        THEN [sent EXCEPT !.requests = Append(@, second),
                          !.exc = Raise("AssertionError", "second_step_certs bad status")]
        ELSE [sent EXCEPT !.requests = Append(@, second)]

\* the server/xmpp branch, with the cached validated domains vds
SubmitServer(loc0, csr, vds, cookie, postOk, getOk) ==
    LET subjects == BuildSubjects(csr)
        loc1 == Assign(Assign(loc0, "csr", csr), "subjects", subjects)
    IN  IF ~(Len(subjects) > 0)
        THEN [loc1 EXCEPT !.exc = Raise("AssertionError", "no subjects found")]
        ELSE LET loc2 == CoverageLoop(subjects, vds, 1,
                             [f \in DOMAIN loc1 \cup {"subjects_direct", "subjects_subdomain",
                                                      "validated_domain_first"} |->
                                 CASE f = "subjects_direct" -> <<>>
                                   [] f = "subjects_subdomain" -> <<>>
                                   [] f = "validated_domain_first" -> None
                                   [] OTHER -> loc1[f]])
             IN  IF loc2.exc # NoExc THEN loc2
                 ELSE IF ~(Len(loc2.subjects_direct) > 0)
                 THEN [loc2 EXCEPT !.exc =
                          Raise("AssertionError", "no direct subjects identified.")]
                 ELSE SubmitCsr(loc2, cookie, postOk, getOk)

\* submit_certificate_request(profile, csr); gvr is the outcome of its call
\* of get_validated_resources
submit_certificate_request(profile, csr, gvr, cookie, postOk, getOk) ==
    LET loc == SubmitLocals(profile)
    IN  IF profile \notin CERTIFICATE_PROFILES
        THEN [loc EXCEPT !.exc = Raise("AssertionError", "unknown profile")]
        ELSE IF gvr.exc # NoExc
        THEN [loc EXCEPT !.exc = gvr.exc, !.requests = gvr.requests]
        ELSE IF profile \in {"server", "xmpp"}
        THEN SubmitServer([loc EXCEPT !.requests = gvr.requests], csr, gvr.vd,
                          cookie, postOk, getOk)
        ELSE [loc EXCEPT !.requests = gvr.requests]

-----------------------------------------------------------------------------
(* The API calls of one session *)

Idle == [op |-> "idle"]

\* no call of get_certificate is under way
NoCall == [pc |-> "none"]

\* no submission is being built
NoForm == [pc |-> "none"]

\* the process is not the command line
NoCli == [pc |-> "none"]

SessionCookie == "MyStartSSLCookie="

Init ==
    /\ authenticated = FALSE
    /\ validated_emails = NoneList
    /\ validated_domains = NoneList
    /\ cookies = None
    /\ server_domains \in DomainLists
    /\ server_emails \in EmailLists
    /\ ret = Idle
    /\ gc = NoCall
    /\ form = NoForm
    /\ cli = NoCli

\* authenticate(cert, key): the answer must be the redirect that sets the cookie
Authenticate ==
    /\ ret.op = "idle"
    /\ \E ok \in BOOLEAN :
        LET req == Request(STARTSSL_AUTHURI, "GET", NoKwargs, cookies)
        IN  IF ok
            THEN /\ cookies' = SessionCookie
                 /\ authenticated' = TRUE
                 /\ ret' = [op |-> "authenticate", exc |-> NoExc, requests |-> <<req>>]
            ELSE /\ UNCHANGED <<cookies, authenticated>>
                 /\ ret' = [op |-> "authenticate", exc |-> Raise("AssertionError", "resp"),
                            requests |-> <<req>>]
    /\ UNCHANGED <<validated_emails, validated_domains, server_domains, server_emails, gc, form, cli>>

GetValidatedResources ==
    /\ ret.op = "idle"
    /\ \E force_update \in BOOLEAN :
       \E domOk \in FetchOutcomes(force_update), emailOk \in FetchOutcomes(force_update) :
        LET gvr == get_validated_resources(authenticated, validated_emails,
                       validated_domains, force_update, domOk, emailOk, cookies)
        IN  /\ validated_emails' = gvr.ve
            /\ validated_domains' = gvr.vd
            /\ ret' = LET loc == [op |-> "get_validated_resources",
                                   force_update |-> force_update,
                                   exc |-> gvr.exc, requests |-> gvr.requests]
                       IN  IF gvr.exc = NoExc
                           THEN Assign(loc, "val", <<gvr.ve, gvr.vd>>)
                           ELSE loc
    /\ UNCHANGED <<authenticated, cookies, server_domains, server_emails, gc, form, cli>>

IsValidatedDomain ==
    /\ ret.op = "idle"
    /\ \E domain \in Names, domOk \in FetchOutcomes(FALSE), emailOk \in FetchOutcomes(FALSE) :
        LET gvr == get_validated_resources(authenticated, validated_emails,
                       validated_domains, FALSE, domOk, emailOk, cookies)
            r == IF gvr.exc # NoExc THEN [exc |-> gvr.exc]
                 ELSE is_validated_domain(domain, gvr.vd)
        IN  /\ validated_emails' = gvr.ve
            /\ validated_domains' = gvr.vd
            /\ ret' = LET loc == [op |-> "is_validated_domain", domain |-> domain,
                                   exc |-> r.exc, requests |-> gvr.requests]
                       IN  IF r.exc = NoExc THEN Assign(loc, "val", r.val) ELSE loc
    /\ UNCHANGED <<authenticated, cookies, server_domains, server_emails, gc, form, cli>>

SubmitCertificateRequest ==
    /\ ret.op = "idle"
    /\ \E profile \in Profiles :
       \E domOk \in FetchOutcomes(FALSE), emailOk \in FetchOutcomes(FALSE) :
        LET gvr == IF profile \in CERTIFICATE_PROFILES
                   THEN get_validated_resources(authenticated, validated_emails,
                            validated_domains, FALSE, domOk, emailOk, cookies)
                   ELSE [exc |-> NoExc, ve |-> validated_emails,
                         vd |-> validated_domains, requests |-> <<>>]
            \* the CSR and the answers to the submission are read only by the
            \* server/xmpp branch
            reads == profile \in {"server", "xmpp"} /\ gvr.exc = NoExc
        IN  \E csr \in IF reads THEN Csrs ELSE {NoCsr} :
            \E postOk \in IF reads THEN BOOLEAN ELSE {TRUE} :
            \E getOk \in IF reads /\ postOk THEN BOOLEAN ELSE {TRUE} :
                /\ validated_emails' = gvr.ve
                /\ validated_domains' = gvr.vd
                /\ ret' = submit_certificate_request(profile, csr, gvr, cookies,
                                                     postOk, getOk)
    /\ UNCHANGED <<authenticated, cookies, server_domains, server_emails, gc, form, cli>>

\* the caller takes the outcome; the session is ready for the next call
Return ==
    /\ ret.op # "idle"
    /\ ret' = Idle
    /\ UNCHANGED <<sessionVars, gc, form, cli>>

Next ==
    \/ Authenticate
    \/ GetValidatedResources
    \/ IsValidatedDomain
    \/ SubmitCertificateRequest
    \/ Return

Spec == Init /\ [][Next]_vars

\* between two calls the account gets one more domain validated: the answer
\* to AjaxRequestGetAllDomainValis grows by one entry
ServerValidatesDomain ==
    /\ ret.op = "idle"
    /\ Len(server_domains) < MaxDomains
    /\ \E d \in DomainNames : server_domains' = Append(server_domains, d)
    /\ UNCHANGED <<authenticated, validated_emails, validated_domains, server_emails,
                   cookies, ret, gc, form, cli>>

\* a session in which the server's answers change between the calls
NextCache ==
    \/ Authenticate
    \/ GetValidatedResources
    \/ IsValidatedDomain
    \/ SubmitCertificateRequest
    \/ Return
    \/ ServerValidatesDomain

SpecCache == Init /\ [][NextCache]_vars


-----------------------------------------------------------------------------
(* Properties of submit_certificate_request and is_validated_domain *)

\* a call of submit_certificate_request that has built its subject list
SubmitBuilt == ret.op = "submit_certificate_request" /\ Assigned(ret, "subjects")

\* a call whose coverage loop ran to its end
LoopDone ==
    /\ SubmitBuilt
    /\ ret.exc.msg \notin {"no subjects found", "Missing domain validations", "endswith"}

Posted(requests) == \E k \in 1..Len(requests) : requests[k].method = "POST"

Minimum(S) == CHOOSE i \in S : \A j \in S : i <= j

FirstIndex(seq, v) == Minimum({i \in 1..Len(seq) : seq[i] = v})

NoDuplicates(seq) == \A i, j \in 1..Len(seq) : i # j => seq[i] # seq[j]

Elements(seq) == {seq[i] : i \in 1..Len(seq)}

\* the indices of the validated domains that are a literal suffix of name
Suffixes(name, vds) == {i \in 1..Len(vds) : EndsWith(name, vds[i])}

\* some validated domain is a literal suffix of the subject
Covered(subject, vds) == IsStr(subject) /\ Suffixes(subject, vds) # {}

\* the first validated domain, in list order, that is a suffix of name
Cover(name, vds) == vds[Minimum(Suffixes(name, vds))]

\* C1: when a subject of the built list has no covering validated domain, the
\* call ends with ValueError "Missing domain validations" naming the first
\* such subject, no body is built and no POST is sent; a POST is sent only
\* when every subject is covered.
C1_UncoveredEndsInCoverageError ==
    SubmitBuilt =>
        LET subjects == ret.subjects
            uncovered == {i \in 1..Len(subjects) :
                            ~Covered(subjects[i], validated_domains)}
        IN  /\ uncovered # {} =>
                /\ ret.exc = Raise("ValueError", "Missing domain validations")
                /\ ret.exc_subject = subjects[Minimum(uncovered)]
                /\ ~Assigned(ret, "body")
                /\ ~Posted(ret.requests)
            /\ Posted(ret.requests) => uncovered = {}

\* C2: is_validated_domain returns the first validated domain, in list order,
\* that is a literal suffix of the name, and False exactly when none is; and
\* submit_certificate_request treats a subject as covered if and only if some
\* validated domain is a suffix of it.
C2_FirstSuffixAndCallerCoverage ==
    /\ (ret.op = "is_validated_domain" /\ Assigned(ret, "val")) =>
          LET matches == Suffixes(ret.domain, validated_domains)
          IN  /\ (ret.val = False) <=> (matches = {})
              /\ matches # {} => ret.val = validated_domains[Minimum(matches)]
    /\ (SubmitBuilt /\ ret.exc.msg = "Missing domain validations") =>
          ~Covered(ret.exc_subject, validated_domains)
    /\ LoopDone =>
          \A i \in 1..Len(ret.subjects) : Covered(ret.subjects[i], validated_domains)

\* the dNSName values of a CSR, in encoding order
DnsValues(csr) ==
    LET dns == SelectSeq(csr.sans, LAMBDA e : e[1] = "dNSName")
    IN  [i \in 1..Len(dns) |-> dns[i][2]]

\* C8: the subject list is the common name, then the dNSName SAN values in
\* order of first appearance, without any value already in the list; it has no
\* duplicates and nothing but the common name and dNSName SAN values.
C8_SubjectsAreCnThenNewDnsSans ==
    SubmitBuilt =>
        LET subjects == ret.subjects
            dns == DnsValues(ret.csr)
        IN  /\ Len(subjects) >= 1
            /\ subjects[1] = ret.csr.cn
            /\ NoDuplicates(subjects)
            /\ Elements(subjects) = {ret.csr.cn} \cup Elements(dns)
            /\ \A i, j \in 2..Len(subjects) :
                  i < j => FirstIndex(dns, subjects[i]) < FirstIndex(dns, subjects[j])

\* a SAN equal to the common name was dropped and a later new one appended
C8_Witness ==
    /\ SubmitBuilt
    /\ Len(ret.csr.sans) >= 2
    /\ ret.csr.sans[1] = <<"dNSName", ret.csr.cn>>
    /\ ret.csr.sans[2][1] = "dNSName"
    /\ ret.subjects = <<ret.csr.cn, ret.csr.sans[2][2]>>

\* C9: when the coverage loop succeeds, subjects_direct is the covering
\* domains of the subjects without duplicates in first-seen order and is not
\* empty, and subjects_subdomain is the subjects, in order, that differ from
\* their covering domain; an empty subject list ends in an error, with no plan.
C9_PlanLists ==
    /\ SubmitBuilt => Len(ret.subjects) > 0 \/ ret.exc.msg = "no subjects found"
    /\ (SubmitBuilt /\ ret.exc.msg = "no subjects found") =>
          ~Assigned(ret, "subjects_direct")
    /\ LoopDone =>
          LET subjects == ret.subjects
              direct == ret.subjects_direct
              covers == [k \in 1..Len(subjects) |-> Cover(subjects[k], validated_domains)]
          IN  /\ NoDuplicates(direct)
              /\ Elements(direct) = Elements(covers)
              /\ \A i, j \in 1..Len(direct) :
                    i < j => FirstIndex(covers, direct[i]) < FirstIndex(covers, direct[j])
              /\ Len(direct) > 0
              /\ ret.exc.msg # "no direct subjects identified."
              /\ ret.subjects_subdomain =
                    SelectSeq(subjects, LAMBDA x : x # Cover(x, validated_domains))

\* two subjects under one validated domain, one of them the domain itself
C9_Witness ==
    /\ LoopDone
    /\ Len(ret.subjects) = 2
    /\ Len(ret.subjects_direct) = 1
    /\ ret.subjects_subdomain = <<ret.subjects[2]>>
    /\ ret.subjects[1] = ret.subjects_direct[1]


-----------------------------------------------------------------------------
(* get_certificate *)

BEGIN_CERTIFICATE == "-----BEGIN CERTIFICATE-----"
END_CERTIFICATE == "-----END CERTIFICATE-----"

\* Python's "needle in hay" on strings
In(needle, hay) ==
    \E i \in 1..(Len(hay) - Len(needle) + 1) : SubSeq(hay, i, i + Len(needle) - 1) = needle

\* s[-4:] and s[0:-4]
LastFour(s) == IF Len(s) <= 4 THEN s ELSE SubSeq(s, Len(s) - 3, Len(s))
DropLastFour(s) == IF Len(s) <= 4 THEN "" ELSE SubSeq(s, 1, Len(s) - 4)

\* The bytes of an archive entry, as a string in which "^" stands for a byte
\* above 127: bytes.decode("ascii") raises on it
IsAscii(data) == ~In("^", data)

EntryDatas ==
    {"-----BEGIN CERTIFICATE-----\nMIIA\n-----END CERTIFICATE-----\n",
     "-----BEGIN CERTIFICATE-----\nMIIB\n-----END CERTIFICATE-----\n",
     "-----END CERTIFICATE-----\n-----BEGIN CERTIFICATE-----\n",
     "-----BEGIN CERTIFICATE-----\nMIIA\n",
     "MIIA\n-----END CERTIFICATE-----\n",
     "-----BEGIN CERTIFICATE-----\n^\n-----END CERTIFICATE-----\n"}

AttachmentFilenames == {"foo.zip", "foo.crt", "zip"}

\* the entry names of the archive the server sends, and of its OtherServer.zip
MainNameLists ==
    SeqsUpTo({"1_Intermediate.crt", "OtherServer.zip", "2_foo.crt", "root.crt"}, MaxEntries)

ServerNameLists ==
    SeqsUpTo({"1_Intermediate.crt", "2_foo.crt", "3_foo.crt", "root.crt"}, MaxEntries)

Frame == [pc |-> "start", exc |-> NoExc, events |-> <<>>]

Fail(frame, type, msg) == [frame EXCEPT !.pc = "raised", !.exc = Raise(type, msg)]

Goto(frame, pc) == [frame EXCEPT !.pc = pc]

Event(frame, e) == [frame EXCEPT !.events = Append(@, e)]

\* the exception of the last else branch
UnexpectedZipContentAsAssertion == Raise("AssertionError", "unexpected zip content")

UnexpectedZipContent == Raise("ValueError", "unexpected zip content")

\* the entry the client/object branch takes for the certificate
CertFilenameFirst(namelist) == namelist[1]

CertFilename(namelist) == namelist[2]

ServerFilenameOne(basename) == "1_" \o basename \o ".crt"

ServerFilename(basename) == "2_" \o basename \o ".crt"

\* get_certificate_zip: the download must answer 200 with an attachment
GetCertificateZip ==
    /\ gc.pc = "start"
    /\ \E ok \in BOOLEAN :
        LET asked == Event(gc, [call |-> "request", zip |-> "", name |-> "DownLoadCert"])
        IN  IF ~ok
            THEN gc' = Fail(asked, "AssertionError", "resp")
            ELSE \E attachment_filename \in AttachmentFilenames :
                    gc' = Goto(Assign(asked, "attachment_filename", attachment_filename),
                               "downloaded")
    /\ UNCHANGED <<sessionVars, ret, form, cli>>

\* the .zip suffix is asserted, then the archive is opened
OpenMain ==
    /\ gc.pc = "downloaded"
    /\ IF LastFour(gc.attachment_filename) # ".zip"
       THEN gc' = Fail(gc, "AssertionError", "attachment_filename")
       ELSE LET named == Assign(gc, "basename", DropLastFour(gc.attachment_filename))
            IN  \E isZip \in BOOLEAN :
                   IF ~isZip
                   THEN gc' = Fail(named, "BadZipFile", "main")
                   ELSE \E namelist \in MainNameLists :
                           gc' = Goto(Event(Assign(named, "zf_main", namelist),
                                            [call |-> "open", zip |-> "main", name |-> ""]),
                                      "opened")
    /\ UNCHANGED <<sessionVars, ret, form, cli>>

\* TestZip without the assertion on the result of testzip()
TestZipIgnored ==
    /\ gc.pc = "opened"
    /\ \E bad \in {None} \cup {gc.zf_main[i] : i \in 1..Len(gc.zf_main)} :
        gc' = Goto(Assign(Event(gc, [call |-> "testzip", zip |-> "main", name |-> ""]),
                          "testzip", bad), "tested")
    /\ UNCHANGED <<sessionVars, ret, form, cli>>

\* assert zf_main.testzip() == None: testzip names the first corrupt entry
TestZip ==
    /\ gc.pc = "opened"
    /\ \E bad \in {None} \cup {gc.zf_main[i] : i \in 1..Len(gc.zf_main)} :
        LET tested == Assign(Event(gc, [call |-> "testzip", zip |-> "main", name |-> ""]),
                             "testzip", bad)
        IN  gc' = IF bad # None
                  THEN Fail(tested, "AssertionError", "invalid zip file")
                  ELSE Goto(tested, "tested")
    /\ UNCHANGED <<sessionVars, ret, form, cli>>

\* the three assertions on the nested archive
ServerChecks(frame) ==
    IF Len(frame.zf_server) # 3
    THEN Fail(frame, "AssertionError", "len(zf_server.namelist())")
    ELSE IF ~Contains(frame.zf_server, frame.intermediate_filename)
    THEN Fail(frame, "AssertionError", "intermediate_filename")
    ELSE IF ~Contains(frame.zf_server, frame.cert_filename)
    THEN Fail(frame, "AssertionError", "server_filename")
    ELSE Goto(frame, "layout")

\* the branch "OtherServer.zip" in zf_main.namelist()
ServerLayout ==
    /\ gc.pc = "tested"
    /\ Contains(gc.zf_main, "OtherServer.zip")
    /\ LET listed == Event(gc, [call |-> "namelist", zip |-> "main", name |-> ""])
           read == Event(listed, [call |-> "read", zip |-> "main", name |-> "OtherServer.zip"])
       IN  \E isZip \in BOOLEAN :
              IF ~isZip
              THEN gc' = Fail(read, "BadZipFile", "server")
              ELSE \E namelist \in ServerNameLists :
                      LET opened == [f \in DOMAIN read \cup {"layout", "zf_server",
                                        "intermediate_filename", "cert_filename"} |->
                                        CASE f = "layout" -> "server"
                                          [] f = "zf_server" -> namelist
                                          [] f = "intermediate_filename" -> "1_Intermediate.crt"
                                          [] f = "cert_filename" -> ServerFilename(gc.basename)
                                          [] OTHER -> read[f]]
                      IN  gc' = ServerChecks(Event(opened,
                                    [call |-> "open", zip |-> "server", name |-> ""]))
    /\ UNCHANGED <<sessionVars, ret, form, cli>>

\* the three assertions on the two-entry archive
ClientChecks(frame) ==
    IF ~(frame.intermediate_filename # frame.cert_filename)
    THEN Fail(frame, "AssertionError", "intermediate_filename != cert_filename")
    ELSE IF ~Contains(frame.zf_main, frame.intermediate_filename)
    THEN Fail(frame, "AssertionError", "intermediate_filename")
    ELSE IF ~Contains(frame.zf_main, frame.cert_filename)
    THEN Fail(frame, "AssertionError", "cert_filename")
    ELSE Goto(frame, "layout")

\* the branch len(zf_main.namelist()) == 2
ClientLayout ==
    /\ gc.pc = "tested"
    /\ ~Contains(gc.zf_main, "OtherServer.zip")
    /\ Len(gc.zf_main) = 2
    /\ LET listed == Event(gc, [call |-> "namelist", zip |-> "main", name |-> ""])
           named == [f \in DOMAIN listed \cup {"layout", "intermediate_filename",
                                               "cert_filename"} |->
                        CASE f = "layout" -> "main"
                          [] f = "intermediate_filename" -> "1_Intermediate.crt"
                          [] f = "cert_filename" -> CertFilename(gc.zf_main)
                          [] OTHER -> listed[f]]
       IN  gc' = ClientChecks(named)
    /\ UNCHANGED <<sessionVars, ret, form, cli>>

\* the else branch
UnknownLayout ==
    /\ gc.pc = "tested"
    /\ ~Contains(gc.zf_main, "OtherServer.zip")
    /\ Len(gc.zf_main) # 2
    /\ LET listed == Event(gc, [call |-> "namelist", zip |-> "main", name |-> ""])
       IN  gc' = [listed EXCEPT !.pc = "raised", !.exc = UnexpectedZipContent]
    /\ UNCHANGED <<sessionVars, ret, form, cli>>

\* read(intermediate_filename).decode("ascii") on the archive of the layout
ReadIntermediate ==
    /\ gc.pc = "layout"
    /\ \E data \in EntryDatas :
        LET read == Event(gc, [call |-> "read", zip |-> gc.layout,
                               name |-> gc.intermediate_filename, data |-> data])
        IN  gc' = IF ~IsAscii(data)
                  THEN Fail(read, "UnicodeDecodeError", "intermediate_cert")
                  ELSE Goto(Assign(read, "intermediate_cert", data), "read_intermediate")
    /\ UNCHANGED <<sessionVars, ret, form, cli>>

\* read(server_filename or cert_filename).decode("ascii")
ReadCert ==
    /\ gc.pc = "read_intermediate"
    /\ \E data \in EntryDatas :
        LET read == Event(gc, [call |-> "read", zip |-> gc.layout,
                               name |-> gc.cert_filename, data |-> data])
        IN  gc' = IF ~IsAscii(data)
                  THEN Fail(read, "UnicodeDecodeError", "cert")
                  ELSE Goto(Assign(read, "cert", data), "read_cert")
    /\ UNCHANGED <<sessionVars, ret, form, cli>>

\* the four assertions on the two texts
PemChecks(frame) ==
    IF ~In(BEGIN_CERTIFICATE, frame.intermediate_cert)
    THEN Fail(frame, "AssertionError", "no BEGIN CERTIFICATE")
    ELSE IF ~In(END_CERTIFICATE, frame.intermediate_cert)
    THEN Fail(frame, "AssertionError", "no END CERTIFICATE")
    ELSE IF ~In(BEGIN_CERTIFICATE, frame.cert)
    THEN Fail(frame, "AssertionError", "no BEGIN CERTIFICATE")
    ELSE IF ~In(END_CERTIFICATE, frame.cert)
    THEN Fail(frame, "AssertionError", "no END CERTIFICATE")
    ELSE Goto(Assign(frame, "val", <<frame.basename, frame.cert, frame.intermediate_cert>>),
              "returned")

\* the marker assertions and the return
CheckAndReturn ==
    /\ gc.pc = "read_cert"
    /\ gc' = PemChecks(gc)
    /\ UNCHANGED <<sessionVars, ret, form, cli>>

\* a call of get_certificate in an authenticated session
InitCert ==
    /\ authenticated = TRUE
    /\ validated_emails = NoneList
    /\ validated_domains = NoneList
    /\ cookies = SessionCookie
    /\ server_domains = <<"ex.com">>
    /\ server_emails = <<"me@ex.com">>
    /\ ret = Idle
    /\ gc = Frame
    /\ form = NoForm
    /\ cli = NoCli

NextCert ==
    \/ GetCertificateZip
    \/ OpenMain
    \/ TestZip
    \/ ServerLayout
    \/ ClientLayout
    \/ UnknownLayout
    \/ ReadIntermediate
    \/ ReadCert
    \/ CheckAndReturn

SpecCert == InitCert /\ [][NextCert]_vars


-----------------------------------------------------------------------------
(* The submission body *)

MaxSubjects == 2

\* subject names and CSR texts with the characters urlencode escapes
BodyNames == {"ex.com", "www.ex.com", "a b.ex.com", "x&y=z", "50%+1/2"}

BodySubjects == SeqsUpTo(BodyNames, MaxSubjects) \ {<<>>}

PemTexts == {CsrPem, "a%2Bb c&areaCSR=x\n"}

\* body = [('domains', "".join(subjects)), ...]
BuildBody ==
    /\ form.pc = "start"
    /\ \E subjects \in BodySubjects, pem \in PemTexts :
          form' = [pc |-> "built", subjects |-> subjects, pem |-> pem,
                   body |-> SubmitBody(subjects, pem)]
    /\ UNCHANGED <<sessionVars, ret, gc, cli>>

\* self.__request(self.STARTSSL_SUBMITCSR, method="POST", body=body)
PostBody ==
    /\ form.pc = "built"
    /\ form' = [Assign(form, "request",
                       Request(STARTSSL_SUBMITCSR, "POST", [body |-> form.body], cookies))
                EXCEPT !.pc = "posted"]
    /\ UNCHANGED <<sessionVars, ret, gc, cli>>

InitBody ==
    /\ authenticated = TRUE
    /\ validated_emails = <<"me@ex.com">>
    /\ validated_domains = <<"ex.com">>
    /\ cookies = SessionCookie
    /\ server_domains = <<"ex.com">>
    /\ server_emails = <<"me@ex.com">>
    /\ ret = Idle
    /\ gc = NoCall
    /\ form = [pc |-> "start"]
    /\ cli = NoCli

NextBody ==
    \/ BuildBody
    \/ PostBody

SpecBody == InitBody /\ [][NextBody]_vars

-----------------------------------------------------------------------------
(* The csr command of the command line *)

MaxFiles == 2

\* what CSR(csr_file) makes of a file: a text without the PEM frame, a PEM
\* frame around bytes that are no CertificationRequest, or a CSR
CsrFiles ==
    {[parse |-> "no pem", csr |-> NoCsr], [parse |-> "no asn1", csr |-> NoCsr]}
    \cup {[parse |-> "ok", csr |-> [cn |-> cn, sans |-> <<>>, pem |-> CsrPem]] :
              cn \in {"ex.com", "other.org", None}}

\* CSR.__init__ and __parse_pem
CSR(file) ==
    CASE file.parse = "no pem" -> [exc |-> Raise("ValueError", "Not a valid PEM CSR")]
      [] file.parse = "no asn1" -> [exc |-> Raise("PyAsn1Error", "decode")]
      [] OTHER -> [exc |-> NoExc, csr |-> file.csr]

\* the exception classes of the model that derive from Exception
ExceptionClasses == {"ValueError", "AssertionError", "AttributeError", "PyAsn1Error"}

\* only ValueError is caught
ExceptValueErrorOnly(exc) ==
    IF exc.type = "ValueError"
    THEN [caught |-> TRUE, out |-> <<"Submission failed:", exc.msg>>]
    ELSE [caught |-> FALSE, out |-> <<>>]

\* the except clauses of the loop: ValueError, then Exception
Except(exc) ==
    IF exc.type = "ValueError"
    THEN [caught |-> TRUE, out |-> <<"Submission failed:", exc.msg>>]
    ELSE IF exc.type \in ExceptionClasses
    THEN [caught |-> TRUE, out |-> <<"Submission failed:", "traceback">>]
    ELSE [caught |-> FALSE, out |-> <<>>]

\* the end of one iteration whose try block ended with exc: the output of the
\* iteration, then the next file; an exception no clause catches ends the
\* process
EndIteration(c, exc) ==
    LET entry(out) == [file |-> c.i, submitting |-> c.csr_files[c.i], exc |-> exc,
                       out |-> out]
    IN  IF exc = NoExc
        THEN [c EXCEPT !.i = @ + 1,
                       !.log = Append(@, entry(<<"Submission successful;">>))]
        ELSE IF Except(exc).caught
        THEN [c EXCEPT !.i = @ + 1, !.log = Append(@, entry(Except(exc).out))]
        ELSE [c EXCEPT !.pc = "died", !.log = Append(@, entry(<<>>))]

\* api.authenticate(...): an assertion that fails is not caught
CliAuthenticate ==
    /\ cli.pc = "authenticate"
    /\ \E ok \in BOOLEAN :
        LET req == Request(STARTSSL_AUTHURI, "GET", NoKwargs, cookies)
        IN  IF ok
            THEN /\ cookies' = SessionCookie
                 /\ authenticated' = TRUE
                 /\ ret' = [op |-> "authenticate", exc |-> NoExc, requests |-> <<req>>]
                 /\ cli' = [cli EXCEPT !.pc = "loop"]
            ELSE /\ UNCHANGED <<cookies, authenticated>>
                 /\ ret' = [op |-> "authenticate", exc |-> Raise("AssertionError", "resp"),
                            requests |-> <<req>>]
                 /\ cli' = [cli EXCEPT !.pc = "died"]
    /\ UNCHANGED <<validated_emails, validated_domains, server_domains, server_emails,
                   gc, form>>

\* one iteration of "for csr_file in args.csr_files"
CliSubmit ==
    /\ cli.pc = "loop"
    /\ cli.i <= Len(cli.csr_files)
    /\ LET parsed == CSR(cli.csr_files[cli.i])
       IN  IF parsed.exc # NoExc
           THEN /\ ret' = [op |-> "CSR", exc |-> parsed.exc, requests |-> <<>>]
                /\ cli' = EndIteration(cli, parsed.exc)
                /\ UNCHANGED <<validated_emails, validated_domains>>
           ELSE \E domOk \in FetchOutcomes(FALSE), emailOk \in FetchOutcomes(FALSE) :
                \E postOk \in BOOLEAN, getOk \in BOOLEAN :
                    LET gvr == get_validated_resources(authenticated, validated_emails,
                                   validated_domains, FALSE, domOk, emailOk, cookies)
                        r == submit_certificate_request(cli.profile, parsed.csr, gvr,
                                                        cookies, postOk, getOk)
                    IN  /\ validated_emails' = gvr.ve
                        /\ validated_domains' = gvr.vd
                        /\ ret' = r
                        /\ cli' = EndIteration(cli, r.exc)
    /\ UNCHANGED <<authenticated, cookies, server_domains, server_emails, gc, form>>

\* sys.exit(0) after the loop
CliExit ==
    /\ cli.pc = "loop"
    /\ cli.i > Len(cli.csr_files)
    /\ cli' = [cli EXCEPT !.pc = "exited"]
    /\ UNCHANGED <<sessionVars, ret, gc, form>>

InitCli ==
    /\ authenticated = FALSE
    /\ validated_emails = NoneList
    /\ validated_domains = NoneList
    /\ cookies = None
    /\ server_domains = <<"ex.com">>
    /\ server_emails = <<"me@ex.com">>
    /\ ret = Idle
    /\ gc = NoCall
    /\ form = NoForm
    /\ \E files \in SeqsUpTo(CsrFiles, MaxFiles), profile \in {"server", "xmpp"} :
          cli = [pc |-> "authenticate", csr_files |-> files, profile |-> profile,
                 i |-> 1, log |-> <<>>]

NextCli ==
    \/ CliAuthenticate
    \/ CliSubmit
    \/ CliExit

SpecCli == InitCli /\ [][NextCli]_vars

\* the process has a next step to take
Running == cli.pc \in {"authenticate", "loop"}

\* the process keeps running: weak fairness of NextCli, written out.  NextCli
\* is enabled exactly in the states of Running, and its steps are the steps
\* that change cli
SpecCliLive == SpecCli /\ ([]<>(~Running) \/ []<><<cli' # cli>>_cli)

-----------------------------------------------------------------------------
(* Properties of get_certificate *)

\* the call is past the integrity check, which found no corrupt entry
Tested == gc.pc \notin {"start", "downloaded", "opened"} /\ Assigned(gc, "testzip")
          /\ gc.testzip = None

\* the outer archive has no nested server archive and two entries
TwoEntries == Tested /\ ~Contains(gc.zf_main, "OtherServer.zip") /\ Len(gc.zf_main) = 2

\* the call is past the branch on the layout (it left pc "tested")
Branched == Tested /\ gc.pc # "tested"

\* the call ended in one of the assertions on the entry names
NameCheckFailed ==
    /\ gc.pc = "raised"
    /\ gc.exc.msg \in {"intermediate_filename != cert_filename", "intermediate_filename",
                       "cert_filename", "server_filename", "len(zf_server.namelist())"}

\* the bytes the call read from entry name of the archive zip
DataRead(zip, name) ==
    LET k == CHOOSE k \in 1..Len(gc.events) :
                 /\ gc.events[k].call = "read"
                 /\ gc.events[k].zip = zip
                 /\ gc.events[k].name = name
    IN  gc.events[k].data

\* the outcome the claims C3 and C7 describe for the entry pair (intermediate,
\* leaf) of the archive zip: the names pass the checks, and a call that
\* returns, returns the common name and the texts of the two entries
ReturnsPair(zip, leaf) ==
    /\ ~NameCheckFailed
    /\ gc.pc = "returned" =>
          /\ gc.val[1] \o ".zip" = gc.attachment_filename
          /\ gc.val[2] = DataRead(zip, leaf)
          /\ gc.val[3] = DataRead(zip, "1_Intermediate.crt")

\* C3 as claimed: a two-entry archive with one entry named
\* 1_Intermediate.crt yields the intermediate and the other entry as the
\* certificate, in either order of the two entries.
C3_TwoEntriesEitherOrder ==
    (TwoEntries /\ Branched) =>
        /\ gc.zf_main[1] = "1_Intermediate.crt" /\ gc.zf_main[2] # "1_Intermediate.crt"
              => ReturnsPair("main", gc.zf_main[2])
        /\ gc.zf_main[2] = "1_Intermediate.crt" /\ gc.zf_main[1] # "1_Intermediate.crt"
              => ReturnsPair("main", gc.zf_main[1])

\* C3 as amended: with 1_Intermediate.crt the first of the two entries the
\* call yields the intermediate and the second entry as the certificate, and
\* the common name is the attachment filename without ".zip"; with
\* 1_Intermediate.crt the second entry the call ends in an AssertionError and
\* returns nothing.
C3_TwoEntriesIntermediateFirst ==
    (TwoEntries /\ Branched) =>
        /\ gc.zf_main[1] = "1_Intermediate.crt" /\ gc.zf_main[2] # "1_Intermediate.crt"
              => ReturnsPair("main", gc.zf_main[2])
        /\ gc.zf_main[2] = "1_Intermediate.crt" =>
              /\ gc.pc = "raised"
              /\ gc.exc = Raise("AssertionError", "intermediate_filename != cert_filename")
              /\ ~Assigned(gc, "val")

\* a two-entry archive returned two different texts
C3_Witness ==
    /\ TwoEntries
    /\ gc.pc = "returned"
    /\ gc.zf_main = <<"1_Intermediate.crt", "root.crt">>
    /\ gc.val[2] # gc.val[3]
    /\ gc.val[1] = "foo"

\* the entry count fits neither layout
CountMismatch ==
    Branched /\ ~Contains(gc.zf_main, "OtherServer.zip") /\ Len(gc.zf_main) # 2

\* the archive of the layout has no entry 1_Intermediate.crt
MissingIntermediate ==
    /\ Branched
    /\ Assigned(gc, "layout")
    /\ \/ gc.layout = "main" /\ ~Contains(gc.zf_main, "1_Intermediate.crt")
       \/ gc.layout = "server" /\ ~Contains(gc.zf_server, "1_Intermediate.crt")

\* a text read from the archive fails a marker assertion
PemFailure ==
    /\ gc.pc = "raised"
    /\ Assigned(gc, "cert")

IntegrityFailure == Assigned(gc, "testzip") /\ gc.testzip # None

\* C4 as claimed: an entry count other than two and a missing
\* 1_Intermediate.crt raise one error kind, which the marker failure and the
\* integrity failure do not raise.
C4_OneLayoutErrorKind ==
    /\ CountMismatch => gc.pc = "raised" /\ gc.exc.type = UnexpectedZipContent.type
    /\ MissingIntermediate => gc.pc = "raised" /\ gc.exc.type = UnexpectedZipContent.type
    /\ PemFailure => gc.exc.type # UnexpectedZipContent.type
    /\ IntegrityFailure => gc.exc.type # UnexpectedZipContent.type

\* C4 as amended: an entry count other than two (without OtherServer.zip)
\* raises ValueError "unexpected zip content"; a two-entry or server archive
\* without 1_Intermediate.crt raises AssertionError, the kind the marker
\* failure and the integrity failure raise too.
C4_LayoutErrorKinds ==
    /\ CountMismatch => gc.pc = "raised" /\ gc.exc = Raise("ValueError", "unexpected zip content")
    /\ MissingIntermediate => gc.pc = "raised" /\ gc.exc.type = "AssertionError"
    /\ PemFailure => gc.exc.type = "AssertionError"
    /\ IntegrityFailure => gc.pc = "raised" /\ gc.exc.type = "AssertionError"
    /\ gc.pc = "raised" /\ gc.exc.type = "ValueError" => CountMismatch

\* a two-entry archive without 1_Intermediate.crt ended the call
C4_Witness ==
    /\ MissingIntermediate
    /\ gc.layout = "main"
    /\ gc.pc = "raised"
    /\ gc.zf_main = <<"root.crt", "2_foo.crt">>

IsTestZip(e) == e.call = "testzip" /\ e.zip = "main"

\* C5: testzip() on the outer archive comes before any read of an entry and
\* before the namelist is inspected; when it names a corrupt entry the call
\* ends in AssertionError "invalid zip file", having read no entry, and
\* returns nothing.
C5_IntegrityCheckFirst ==
    /\ \A k \in 1..Len(gc.events) :
          gc.events[k].call \in {"read", "namelist"} =>
              \E j \in 1..(k - 1) : IsTestZip(gc.events[j])
    /\ IntegrityFailure =>
          /\ gc.pc = "raised"
          /\ gc.exc = Raise("AssertionError", "invalid zip file")
          /\ ~Assigned(gc, "val")
          /\ ~Assigned(gc, "cert")
          /\ ~Assigned(gc, "intermediate_cert")
          /\ \A k \in 1..Len(gc.events) : gc.events[k].call \notin {"read", "namelist"}

\* the check named a corrupt entry of an archive that holds OtherServer.zip
C5_Witness ==
    /\ IntegrityFailure
    /\ gc.pc = "raised"
    /\ Len(gc.zf_main) = 2
    /\ Contains(gc.zf_main, "OtherServer.zip")
    /\ gc.testzip = "OtherServer.zip"

\* a BEGIN CERTIFICATE marker with an END CERTIFICATE marker after it
MatchingPair(text) ==
    \E i \in 1..Len(text), j \in 1..Len(text) :
        /\ i + Len(BEGIN_CERTIFICATE) <= j
        /\ j + Len(END_CERTIFICATE) - 1 <= Len(text)
        /\ SubSeq(text, i, i + Len(BEGIN_CERTIFICATE) - 1) = BEGIN_CERTIFICATE
        /\ SubSeq(text, j, j + Len(END_CERTIFICATE) - 1) = END_CERTIFICATE

\* C6: a bundle that get_certificate returns holds two texts with a matching
\* BEGIN/END CERTIFICATE pair; a text without one is never returned.
C6_ReturnedTextsHaveMatchingPair ==
    gc.pc = "returned" => MatchingPair(gc.val[2]) /\ MatchingPair(gc.val[3])

\* the nested archive passed the three assertions on its names
ServerAccepted ==
    /\ Branched
    /\ Assigned(gc, "zf_server")
    /\ ~NameCheckFailed

NumberedLeaf(name, basename) ==
    name \in {"1_" \o basename \o ".crt", "2_" \o basename \o ".crt",
              "3_" \o basename \o ".crt"}

\* the entry set {intermediate, two numbered leaf entries}
IntermediateAndTwoLeaves(namelist, basename) ==
    /\ Len(namelist) = 3
    /\ \E i \in 1..3 :
          /\ namelist[i] = "1_Intermediate.crt"
          /\ \A j \in (1..3) \ {i} : NumberedLeaf(namelist[j], basename)
          /\ \A j, k \in (1..3) \ {i} : j # k => namelist[j] # namelist[k]

\* an outer archive with OtherServer.zip takes the server branch
ServerBranchTaken ==
    (Branched /\ Contains(gc.zf_main, "OtherServer.zip")) =>
        /\ gc.exc # UnexpectedZipContent
        /\ Assigned(gc, "layout") => gc.layout = "server"
        /\ \E k \in 1..Len(gc.events) :
              /\ gc.events[k].call = "read"
              /\ gc.events[k].zip = "main"
              /\ gc.events[k].name = "OtherServer.zip"

\* C7 as claimed: with OtherServer.zip in the outer archive the server layout
\* is used; the nested archive is accepted only with exactly the entries
\* {1_Intermediate.crt, two numbered leaf entries}, and the call returns
\* 1_Intermediate.crt and 2_<commonName>.crt.
C7_ServerNeedsIntermediateAndTwoLeaves ==
    /\ ServerBranchTaken
    /\ ServerAccepted =>
          /\ IntermediateAndTwoLeaves(gc.zf_server, gc.basename)
          /\ ReturnsPair("server", "2_" \o gc.basename \o ".crt")

\* C7 as amended: with OtherServer.zip in the outer archive the server layout
\* is used; the nested archive is accepted if and only if it has three
\* entries, 1_Intermediate.crt and 2_<commonName>.crt among them (the third
\* may have any name), and the call returns 1_Intermediate.crt and
\* 2_<commonName>.crt; any other nested archive ends the call in
\* AssertionError.
C7_ServerNeedsThreeEntriesWithBothNames ==
    /\ ServerBranchTaken
    /\ (Branched /\ Assigned(gc, "zf_server")) =>
          LET fits == /\ Len(gc.zf_server) = 3
                      /\ Contains(gc.zf_server, "1_Intermediate.crt")
                      /\ Contains(gc.zf_server, "2_" \o gc.basename \o ".crt")
          IN  /\ ServerAccepted <=> fits
              /\ fits => ReturnsPair("server", "2_" \o gc.basename \o ".crt")
              /\ ~fits => gc.pc = "raised" /\ gc.exc.type = "AssertionError"
                          /\ ~Assigned(gc, "val")

\* a nested archive with root.crt as its third entry returned a bundle, next
\* to another outer entry
C7_Witness ==
    /\ gc.pc = "returned"
    /\ gc.layout = "server"
    /\ gc.zf_main = <<"root.crt", "OtherServer.zip">>
    /\ gc.zf_server = <<"root.crt", "1_Intermediate.crt", "2_foo.crt">>
    /\ gc.val[2] # gc.val[3]


-----------------------------------------------------------------------------
(* Properties of the submission body *)

\* the character a %XX escape stands for
Unhex(xx) ==
    CASE xx = "2B" -> "+"
      [] xx = "26" -> "&"
      [] xx = "3D" -> "="
      [] xx = "25" -> "%"
      [] xx = "2F" -> "/"
      [] xx = "0A" -> "\n"
      [] OTHER     -> "%" \o xx

\* the position of the first sep in s, or 0
Find(s, sep) ==
    IF \E i \in 1..Len(s) : SubSeq(s, i, i) = sep
    THEN Minimum({i \in 1..Len(s) : SubSeq(s, i, i) = sep})
    ELSE 0

RECURSIVE Split(_, _)
\* s.split(sep)
Split(s, sep) ==
    LET i == Find(s, sep)
    IN  IF i = 0 THEN <<s>>
        ELSE <<SubSeq(s, 1, i - 1)>> \o Split(SubSeq(s, i + 1, Len(s)), sep)

RECURSIVE JoinWith(_, _)
\* sep.join(list)
JoinWith(list, sep) ==
    IF list = <<>> THEN ""
    ELSE IF Len(list) = 1 THEN list[1]
    ELSE list[1] \o sep \o JoinWith(Tail(list), sep)

\* form decoding of one key or value: "+" is a space, then the text is split
\* at "%" and the two characters after each "%" are an escape
UnquotePlus(s) ==
    LET spaced == JoinWith(Split(s, "+"), " ")
        parts == Split(spaced, "%")
        Item(k) == IF k = 1 THEN parts[k]
                   ELSE IF Len(parts[k]) < 2 THEN "%" \o parts[k]
                   ELSE Unhex(SubSeq(parts[k], 1, 2)) \o SubSeq(parts[k], 3, Len(parts[k]))
    IN  Join([k \in 1..Len(parts) |-> Item(k)])

\* form decoding of a body: the fields are split at "&", each at its first
\* "=", key and value are unquoted; blank values are kept
FormDecode(encoded) ==
    LET fields == Split(encoded, "&")
        Pair(f) == LET i == Find(f, "=")
                   IN  <<UnquotePlus(SubSeq(f, 1, i - 1)),
                         UnquotePlus(SubSeq(f, i + 1, Len(f)))>>
    IN  [k \in 1..Len(fields) |-> Pair(fields[k])]

RECURSIVE Concatenation(_, _)
\* the first n subjects one after the other
Concatenation(subjects, n) ==
    IF n = 0 THEN "" ELSE Concatenation(subjects, n - 1) \o subjects[n]

\* the values of the fields named key
Values(pairs, key) == {pairs[k][2] : k \in {j \in 1..Len(pairs) : pairs[j][1] = key}}

\* C10: the body carries the subjects concatenated in order without separator
\* in 'domains' and the CSR text in 'areaCSR', next to rbcsr=scsr,
\* hidchekcer=1 and __EVENTTARGET=btnSubmit; form-decoding the urlencoded body
\* of the POST recovers that concatenation and that CSR text.
C10_BodyFieldsAndRoundTrip ==
    /\ form.pc \in {"built", "posted"} =>
          /\ Len(form.body) = 5
          /\ Values(form.body, "domains") = {Concatenation(form.subjects, Len(form.subjects))}
          /\ Values(form.body, "areaCSR") = {form.pem}
          /\ Values(form.body, "rbcsr") = {"scsr"}
          /\ Values(form.body, "hidchekcer") = {"1"}
          /\ Values(form.body, "__EVENTTARGET") = {"btnSubmit"}
    /\ form.pc = "posted" =>
          LET decoded == FormDecode(form.request.body)
          IN  /\ form.request.method = "POST"
              /\ form.request.content_type = "application/x-www-form-urlencoded"
              /\ Len(decoded) = 5
              /\ Values(decoded, "domains")
                     = {Concatenation(form.subjects, Len(form.subjects))}
              /\ Values(decoded, "areaCSR") = {form.pem}
              /\ Values(decoded, "rbcsr") = {"scsr"}
              /\ Values(decoded, "hidchekcer") = {"1"}
              /\ Values(decoded, "__EVENTTARGET") = {"btnSubmit"}

\* a body was posted whose subjects and CSR text both hold escaped characters
C10_Witness ==
    /\ form.pc = "posted"
    /\ form.subjects = <<"x&y=z", "a b.ex.com">>
    /\ form.pem = CsrPem
    /\ form.request.body # Join(<<"domains=", "x&y=z", "a b.ex.com">>)
    /\ FormDecode(form.request.body)[1] = <<"domains", "x&y=za b.ex.com">>
    /\ FormDecode(form.request.body)[3] = <<"areaCSR", CsrPem>>

-----------------------------------------------------------------------------
(* Properties of the cache of validated resources *)

\* the requests among requests that fetch a list of validated resources
FetchRequestsOf(requests) ==
    SelectSeq(requests, LAMBDA r : r.uri \in {STARTSSL_GETDOMAINSURI, STARTSSL_GETEMAILSURI})

\* both lists are set: a call without force_update is served from them
CacheFilled == validated_emails # NoneList /\ validated_domains # NoneList

\* this step is a call that goes through get_validated_resources
CallsGetValidatedResources ==
    /\ ret.op = "idle"
    /\ \/ ret'.op \in {"get_validated_resources", "is_validated_domain"}
       \/ ret'.op = "submit_certificate_request" /\ ret'.profile \in CERTIFICATE_PROFILES

\* this step is get_validated_resources(force_update=True)
Forced == ret'.op = "get_validated_resources" /\ ret'.force_update

\* the call of this step ended in the failure of a fetch
FetchFailed == ret'.exc = Raise("AssertionError", "resp.status")

\* the call of this step sent the two fetch requests and, unless one failed,
\* left the server's answers in the session
FetchedBoth ==
    LET fetched == FetchRequestsOf(ret'.requests)
    IN  /\ Len(fetched) >= 1
        /\ fetched[1].uri = STARTSSL_GETDOMAINSURI
        /\ ~FetchFailed =>
              /\ Len(fetched) = 2
              /\ fetched[2].uri = STARTSSL_GETEMAILSURI
              /\ validated_emails' = server_emails
              /\ validated_domains' = server_domains
              /\ ret'.op = "get_validated_resources" =>
                     ret'.val = <<server_emails, server_domains>>

\* the call of this step sent no fetch request and worked on the lists the
\* session had
ServedFromCache ==
    /\ FetchRequestsOf(ret'.requests) = <<>>
    /\ UNCHANGED <<validated_emails, validated_domains>>
    /\ ret'.op = "get_validated_resources" =>
          /\ ret'.exc = NoExc
          /\ ret'.val = <<validated_emails, validated_domains>>
    /\ (ret'.op = "is_validated_domain" /\ ret'.exc = NoExc) =>
          ret'.val = FirstSuffixFrom(ret'.domain, validated_domains, 1)

\* C11: in an authenticated session the first call that goes through
\* get_validated_resources fetches the two lists; every later call without
\* force_update, the calls from is_validated_domain and
\* submit_certificate_request included, sends no request and returns the
\* cached lists; a call with force_update=True fetches both lists again and
\* replaces the cache with the fetched values.
C11_FetchedOnceUnlessForced ==
    [][CallsGetValidatedResources =>
          /\ (CacheFilled /\ ~Forced) => ServedFromCache
          /\ (authenticated /\ Forced) => FetchedBoth
          /\ (authenticated /\ ~CacheFilled) => FetchedBoth
          /\ FetchRequestsOf(ret'.requests) # <<>> =>
                 validated_emails' # NoneList /\ validated_domains' # NoneList
      ]_vars

\* a call without force_update returned the cached domain list although the
\* server's list has grown since the fetch
C11_Witness ==
    /\ ret.op = "get_validated_resources"
    /\ ~ret.force_update
    /\ ret.exc = NoExc
    /\ ret.requests = <<>>
    /\ ret.val = <<server_emails, <<"ex.com">> >>
    /\ validated_domains = <<"ex.com">>
    /\ server_domains = <<"ex.com", "evilex.com">>

\* the list the server answered at some earlier time: its answer only grows
EarlierAnswer(list, answer) ==
    Len(list) <= Len(answer) /\ SubSeq(answer, 1, Len(list)) = list

\* the cached lists are what one fetch with two answered requests left
CacheIsOneCompleteFetch ==
    CacheFilled =>
        /\ validated_emails = server_emails
        /\ EarlierAnswer(validated_domains, server_domains)

\* C12: a call whose fetch fails leaves the cached lists as they were before
\* the call, and the lists a call is served from are always the complete
\* result of one fetch in which both requests were answered, never the empty
\* or half-filled lists of a failed fetch.
C12_FailedFetchLeavesCache ==
    /\ [](CacheIsOneCompleteFetch)
    /\ [][(CallsGetValidatedResources /\ FetchFailed) =>
              UNCHANGED <<validated_emails, validated_domains>>]_vars

-----------------------------------------------------------------------------
(* Properties of the csr command *)

\* the output so far is one report for each of the first i - 1 files, in the
\* order of the arguments: success when the try block ended without
\* exception, failure otherwise
ReportedInOrder ==
    /\ Len(cli.log) = cli.i - 1
    /\ Len(cli.log) <= Len(cli.csr_files)
    /\ \A j \in 1..Len(cli.log) :
          /\ cli.log[j].file = j
          /\ cli.log[j].submitting = cli.csr_files[j]
          /\ cli.log[j].exc = NoExc <=> cli.log[j].out = <<"Submission successful;">>
          /\ cli.log[j].exc # NoExc =>
                 Len(cli.log[j].out) = 2 /\ cli.log[j].out[1] = "Submission failed:"

\* C13: after a successful authentication every CSR file of the command line
\* is processed once and in argument order; a file that fails (no PEM frame,
\* an uncovered subject, any other exception of decoding or submitting) is
\* reported and the remaining files are still attempted; the loop reaches the
\* end of the list and the process exits.
C13_EveryFileAttemptedThenExit ==
    /\ [](authenticated =>
             /\ cli.pc \in {"loop", "exited"}
             /\ ReportedInOrder
             /\ cli.pc = "exited" => Len(cli.log) = Len(cli.csr_files))
    /\ (authenticated ~> cli.pc = "exited")

\* the process exited after a first file that ended in an exception other
\* than ValueError and a second file that was submitted
C13_Witness ==
    /\ cli.pc = "exited"
    /\ Len(cli.log) = 2
    /\ cli.log[1].exc.type = "AttributeError"
    /\ cli.log[1].out = <<"Submission failed:", "traceback">>
    /\ cli.log[2].exc = NoExc
    /\ cli.log[2].out = <<"Submission successful;">>

====
